---- MODULE Spec2Model ----
(***************************************************************************)
(* Employees CRUD service: the request layer (api/routes/employees.py) on  *)
(* top of the data-access layer (employees_manager.py), over one           *)
(* PostgreSQL table "employees" reached through SQLAlchemy sessions.       *)
(*                                                                         *)
(* Representation                                                          *)
(*   - an Optional[T] value is a sequence of length <= 1: <<>> is None,    *)
(*     <<v>> is v. The nullable column job_history is kept in this form.   *)
(*   - a salary is an integer number of thousandths (0.001); the column is *)
(*     Numeric(12, 2), so a stored salary is a multiple of CentUnit; the   *)
(*     salaries used stay far below the column's 12 digits.                *)
(*   - an order_by key is a sequence of lexemes: <<"-", "salary">> is      *)
(*     "-salary", <<"salary">> is "salary".                                *)
(*   - keyword arguments and JSON bodies are functions from key to value.  *)
(*   - the database runs READ COMMITTED: a statement reads the committed   *)
(*     rows, an uncommitted write is held in the session (pend) and locks  *)
(*     its row until the session commits or rolls back.                    *)
(***************************************************************************)
EXTENDS Integers, Sequences, FiniteSets, TLC

\* db        the committed rows of table employees
\* seq       the last value drawn from the id sequence of the table
\* req       per worker: the request it serves, its position (pc), the
\*           session's event log and uncommitted writes, and the outcome
\* everUsed  every id a committed row has ever had
\* nreq      the number of requests begun
VARIABLES db, seq, req, everUsed, nreq

vars == <<db, seq, req, everUsed, nreq>>

\* ------------------------------------------------------------------ bounds
MaxReqs == 3
MaxId == 2
MaxRows == 3

Procs == {"r1", "r2"}

\* ------------------------------------------------------------- data model
Columns == {"id", "name", "title", "job_history", "salary", "years_of_experience"}

Fields == {"name", "title", "job_history", "salary", "years_of_experience"}

CentUnit == 10

DefaultTop == 10

DefaultN == 5

DefaultOrderBy == << <<"-", "salary">> >>

Collation == <<"Ana", "Bob", "Eng", "Mgr", "h">>

Rank(s) == CHOOSE i \in 1..Len(Collation) : Collation[i] = s

NullRank == Len(Collation) + 1

\* Numeric(12, 2): the value PostgreSQL stores rounds to two decimals, half away from zero
RoundScale2(x) == ((x + (CentUnit \div 2)) \div CentUnit) * CentUnit

Ids(rows) == {r.id : r \in rows}

\* the row a session persists for an in-memory Employee object
Stored(emp) == [emp EXCEPT !.salary = RoundScale2(emp.salary)]

\* ------------------------------------------------------------ input sets
\* keyword arguments of EmployeesManager.create_employee
CreateKwargs ==
    { [name |-> "Ana", title |-> "Eng", job_history |-> <<>>, salary |-> 15,
       years_of_experience |-> 1],
      [name |-> "Bob", title |-> "Mgr", job_history |-> <<"h">>, salary |-> 30,
       years_of_experience |-> 0] }

\* keyword arguments of EmployeesManager.update_employee (**updates)
UpdateKwargs ==
    { [salary |-> 25], [job_history |-> <<>>, name |-> "Bob"], [id |-> 2],
      [bogus |-> 1] }

EmpIds == 1..MaxId

Limits == 1..MaxRows

\* JSON bodies of POST /employees: supplied key -> value, <<>> being JSON null
PostBodies ==
    { [name |-> <<"Bob">>, title |-> <<"Eng">>, job_history |-> <<"h">>,
       salary |-> <<0>>, years_of_experience |-> <<1>>],
      [name |-> <<"Ana">>, title |-> <<"Mgr">>, salary |-> <<15>>,
       years_of_experience |-> <<0>>],
      [name |-> <<"Ana">>, title |-> <<"Eng">>, salary |-> <<0 - 10>>,
       years_of_experience |-> <<1>>],
      [name |-> <<"Ana">>, title |-> <<"Eng">>, job_history |-> <<>>,
       salary |-> <<10>>, years_of_experience |-> <<0 - 1>>],
      [title |-> <<"Eng">>, salary |-> <<10>>, years_of_experience |-> <<1>>] }

\* JSON bodies of PUT /employees/{emp_id}
PutBodies ==
    { <<>>, [job_history |-> <<>>], [name |-> <<>>, salary |-> <<>>],
      [salary |-> <<0 - 10>>], [salary |-> <<25>>],
      [name |-> <<"Ana">>, job_history |-> <<>>],
      [id |-> <<2>>, years_of_experience |-> <<2>>] }

\* rows a table may hold under each id (equal under two ids: ties in every key but id)
RowPool(i) ==
    { [id |-> i, name |-> "Ana", title |-> "Eng", job_history |-> <<>>,
       salary |-> 20, years_of_experience |-> 1],
      [id |-> i, name |-> "Bob", title |-> "Mgr", job_history |-> <<"h">>,
       salary |-> 30, years_of_experience |-> 0],
      [id |-> i, name |-> "Bob", title |-> "Eng", job_history |-> <<"h">>,
       salary |-> 10, years_of_experience |-> 1] }

Tables ==
    { t \in SUBSET (UNION {RowPool(i) : i \in 1..MaxRows}) :
        \A a \in t, b \in t : a.id = b.id => a = b }

\* order_by argument: None, or a list of keys
OrderBys ==
    { <<>>, << <<>> >>, << << <<"-", "salary">> >> >>, << << <<"name">> >> >>,
      << << <<"-", "title">>, <<"name">> >> >>,
      << << <<"salary">>, <<"-", "id">> >> >>,
      << << <<"job_history">>, <<"-", "years_of_experience">> >> >>,
      << << <<"-", "job_history">> >> >>,
      << << <<"bogus">> >> >> }

\* filters argument: None, or a dict
FilterArgs ==
    { <<>>, << <<>> >>, << [title |-> "Eng"] >>, << [name |-> "Bob"] >>,
      << [salary |-> 20] >>, << [title |-> "Eng", job_history |-> <<>>] >>,
      << [bogus |-> 1] >> }

\* query parameters of GET /employees
TopParams == {0, 1, MaxRows - 1, DefaultTop}

OrderByParams ==
    { DefaultOrderBy, << <<"name">>, <<"-", "salary">> >>, << <<"-">> >> }

TitleParams == {<<>>, <<"">>, <<"Eng">>, <<"Mgr">>}

\* ---------------------------------------------------------- request state
NoArgs ==
    [emp_id |-> 0, kw |-> <<>>, n |-> 0, order_by |-> <<>>, filters |-> <<>>,
     body |-> <<>>]

NoPend == [ins |-> {}, del |-> {}]

Idle ==
    [pc |-> "idle", layer |-> "none", op |-> "none", args |-> NoArgs, log |-> <<>>,
     loaded |-> <<>>, pend |-> NoPend, exc |-> "none", excId |-> 0,
     ret |-> <<>>, status |-> 0]

\* line 52: session = SessionLocal(), the first statement of every manager call
Call(layer, op, args) ==
    [Idle EXCEPT !.pc = "body", !.layer = layer, !.op = op, !.args = args,
                 !.log = <<"open">>]

\* a request answered by the request layer alone: no manager call, no session
Rejected(op, args, status) ==
    [Idle EXCEPT !.pc = "done", !.layer = "http", !.op = op, !.args = args,
                 !.status = status]

Init ==
    /\ db = {}
    /\ seq = 0
    /\ req = [p \in Procs |-> Idle]
    /\ everUsed = {}
    /\ nreq = 0

\* creates whose INSERT has not drawn its id from the sequence yet
Inserting == {q \in Procs : req[q].op = "create" /\ req[q].pc = "body"}

\* a worker takes a request once its previous call has returned
Begin(p, r) ==
    /\ req[p].pc \in {"idle", "done"}
    /\ nreq < MaxReqs
    /\ r.op = "create" /\ r.pc = "body" => seq + Cardinality(Inserting) < MaxId
    /\ req' = [req EXCEPT ![p] = r]
    /\ nreq' = nreq + 1
    /\ UNCHANGED <<db, seq, everUsed>>

\* ------------------------------------------------ direct data-access calls
get_top_employees(p) ==
    \E n \in Limits, ob \in OrderBys, f \in FilterArgs :
        Begin(p, Call("dal", "list", [NoArgs EXCEPT !.n = n, !.order_by = ob, !.filters = f]))

\* get_top_employees() with its defaults: n = 5, order_by = None, filters = None
get_top_employees_default(p) ==
    Begin(p, Call("dal", "list", [NoArgs EXCEPT !.n = DefaultN]))

create_employee(p) ==
    \E kw \in CreateKwargs :
        Begin(p, Call("dal", "create", [NoArgs EXCEPT !.kw = kw]))

update_employee(p) ==
    \E i \in EmpIds, kw \in UpdateKwargs :
        Begin(p, Call("dal", "update", [NoArgs EXCEPT !.emp_id = i, !.kw = kw]))

delete_employee(p) ==
    \E i \in EmpIds :
        Begin(p, Call("dal", "delete", [NoArgs EXCEPT !.emp_id = i]))

\* ------------------------------------------------------------ request layer
\* pydantic: a key that is absent and a key whose value is null both parse to None
Parsed(body, k) == IF k \in DOMAIN body THEN body[k] ELSE <<>>

NonNegative(v) == v = <<>> \/ v[1] >= 0

\* the schema without its ge=0 bounds
EmployeeCreateValidNoRange(body) ==
    \A k \in Fields \ {"job_history"} : Parsed(body, k) # <<>>

EmployeeCreateValid(body) ==
    /\ \A k \in Fields \ {"job_history"} : Parsed(body, k) # <<>>
    /\ NonNegative(Parsed(body, "salary"))
    /\ NonNegative(Parsed(body, "years_of_experience"))

EmployeeCreateDump(body) ==
    [name |-> Parsed(body, "name")[1], title |-> Parsed(body, "title")[1],
     job_history |-> Parsed(body, "job_history"),
     salary |-> Parsed(body, "salary")[1],
     years_of_experience |-> Parsed(body, "years_of_experience")[1]]

EmployeeUpdateValid(body) ==
    /\ NonNegative(Parsed(body, "salary"))
    /\ NonNegative(Parsed(body, "years_of_experience"))

model_dump(body) == [k \in Fields |-> Parsed(body, k)]

UpdateValue(k, v) == IF k = "job_history" THEN v ELSE v[1]

\* dict_updates dropping only the keys the body did not carry
dict_updates_keep_null(body) ==
    LET md == model_dump(body)
        keys == {k \in Fields : md[k] # <<>> \/ (k = "job_history" /\ k \in DOMAIN body)}
    IN  [k \in keys |-> UpdateValue(k, md[k])]

dict_updates(body) ==
    LET md == model_dump(body)
        keys == {k \in Fields : md[k] # <<>>}
    IN  [k \in keys |-> UpdateValue(k, md[k])]

OkStatus(op) ==
    CASE op = "create" -> 201
      [] op = "delete" -> 204
      [] OTHER -> 200

\* the routes without their except ValueError clauses
HttpStatusNoCatch(op, exc) == IF exc = "none" THEN OkStatus(op) ELSE 500

\* what the route returns for the manager's outcome: only PUT and DELETE catch
\* ValueError; any other exception is an unhandled server error
HttpStatus(op, exc) ==
    IF exc = "none" THEN OkStatus(op)
    ELSE IF exc = "ValueError" /\ op \in {"update", "delete"} THEN 404
    ELSE 500

list_employees(p) ==
    \E top \in TopParams, ob \in OrderByParams, title \in TitleParams :
        LET q == [top |-> top, order_by |-> ob, title |-> title]
            filters == IF title # <<>> /\ title[1] # "" THEN [title |-> title[1]] ELSE <<>>
            args == [NoArgs EXCEPT !.n = top, !.order_by = <<ob>>,
                                   !.filters = <<filters>>, !.body = q]
        IN  IF top > 0
            THEN Begin(p, Call("http", "list", args))
            ELSE Begin(p, Rejected("list", args, 422))

\* GET /employees with no query parameters
list_employees_default(p) ==
    LET q == [top |-> DefaultTop, order_by |-> DefaultOrderBy, title |-> <<>>]
    IN  Begin(p, Call("http", "list",
                      [NoArgs EXCEPT !.n = DefaultTop, !.order_by = <<DefaultOrderBy>>,
                                     !.filters = << <<>> >>, !.body = q]))

HttpPost(p) ==
    \E body \in PostBodies :
        IF EmployeeCreateValid(body)
        THEN Begin(p, Call("http", "create",
                           [NoArgs EXCEPT !.kw = EmployeeCreateDump(body), !.body = body]))
        ELSE Begin(p, Rejected("create", [NoArgs EXCEPT !.body = body], 422))

HttpPut(p) ==
    \E i \in EmpIds, body \in PutBodies :
        LET updates == dict_updates(body)
            args == [NoArgs EXCEPT !.emp_id = i, !.kw = updates, !.body = body]
        IN  IF ~EmployeeUpdateValid(body) THEN Begin(p, Rejected("update", args, 422))
            ELSE IF DOMAIN updates = {} THEN Begin(p, Rejected("update", args, 400))
            ELSE Begin(p, Call("http", "update", args))

HttpDelete(p) ==
    \E i \in EmpIds :
        Begin(p, Call("http", "delete", [NoArgs EXCEPT !.emp_id = i]))

\* ------------------------------------------------------- get_top_employees
Min(a, b) == IF a <= b THEN a ELSE b

\* `x or default` for an Optional list / dict argument
OrElse(arg, default) == IF arg = <<>> \/ arg[1] = <<>> THEN default ELSE arg[1]

Desc(key) == key # <<>> /\ key[1] = "-"

ColName(key) == IF Desc(key) THEN Tail(key) ELSE key

\* getattr(Employee, col_name) succeeds
HasColumn(name) == Len(name) = 1 /\ name[1] \in Columns

\* the value ORDER BY compares; PostgreSQL sorts NULL as larger than any value
SortValue(r, c) ==
    CASE c \in {"id", "salary", "years_of_experience"} -> r[c]
      [] c \in {"name", "title"} -> Rank(r[c])
      [] c = "job_history" -> IF r[c] = <<>> THEN NullRank ELSE Rank(r[c][1])

RECURSIVE CompareAscending(_, _, _)
\* ORDER BY without the .desc() of a '-' key
CompareAscending(a, b, ob) ==
    IF ob = <<>> THEN 0
    ELSE LET c == ColName(Head(ob))[1]
             va == SortValue(a, c)
             vb == SortValue(b, c)
         IN  IF va = vb THEN CompareAscending(a, b, Tail(ob))
             ELSE IF va < vb THEN 0 - 1 ELSE 1

RECURSIVE Compare(_, _, _)
\* -1: a sorts before b; 1: after; 0: the ORDER BY clauses do not tell them apart
Compare(a, b, ob) ==
    IF ob = <<>> THEN 0
    ELSE LET c == ColName(Head(ob))[1]
             va == SortValue(a, c)
             vb == SortValue(b, c)
         IN  IF va = vb THEN Compare(a, b, Tail(ob))
             ELSE IF (va < vb) # Desc(Head(ob)) THEN 0 - 1 ELSE 1

RECURSIVE InsertSorted(_, _, _)
InsertSorted(x, s, ob) ==
    IF s = <<>> THEN <<x>>
    ELSE IF Compare(x, Head(s), ob) < 0 THEN <<x>> \o s
    ELSE <<Head(s)>> \o InsertSorted(x, Tail(s), ob)

RECURSIVE OrderRows(_, _)
OrderRows(scan, ob) ==
    IF scan = <<>> THEN <<>>
    ELSE InsertSorted(Head(scan), OrderRows(Tail(scan), ob), ob)

RECURSIVE Scans(_)
\* the orders in which a table scan may produce a set of rows
Scans(rows) ==
    IF rows = {} THEN {<<>>}
    ELSE UNION {{<<r>> \o s : s \in Scans(rows \ {r})} : r \in rows}

Matches(r, filters) == \A a \in DOMAIN filters : r[a] = filters[a]

LimitRows(s, n) == SubSeq(s, 1, Min(n, Len(s)))

Raise(r, exc, id) == [r EXCEPT !.pc = "except", !.exc = exc, !.excId = id]

BodyList(p) ==
    LET r == req[p]
        ob == OrElse(r.args.order_by, DefaultOrderBy)
        filters == OrElse(r.args.filters, <<>>)
    IN  /\ r.pc = "body" /\ r.op = "list"
        /\ IF \/ \E a \in DOMAIN filters : a \notin Columns
              \/ \E i \in 1..Len(ob) : ~HasColumn(ColName(ob[i]))
           THEN req' = [req EXCEPT ![p] = Raise(r, "AttributeError", 0)]
           ELSE \E scan \in Scans({e \in db : Matches(e, filters)}) :
                    req' = [req EXCEPT ![p] =
                              [r EXCEPT !.pc = "commit",
                                        !.ret = LimitRows(OrderRows(scan, ob), r.args.n)]]
        /\ UNCHANGED <<db, seq, everUsed, nreq>>

\* ---------------------------------------------------------- row-level locks
\* another session holds an uncommitted DELETE of the row with this id
DeleteLocked(p, id) == \E q \in Procs \ {p} : id \in req[q].pend.del

\* another session holds an uncommitted INSERT of a row with this id
InsertLocked(p, id) == \E q \in Procs \ {p} : id \in Ids(req[q].pend.ins)

\* --------------------------------------------------------- create_employee
BodyCreate(p) ==
    LET r == req[p]
        id == seq + 1
        emp == [id |-> id, name |-> r.args.kw.name, title |-> r.args.kw.title,
                job_history |-> r.args.kw.job_history, salary |-> r.args.kw.salary,
                years_of_experience |-> r.args.kw.years_of_experience]
    IN  /\ r.pc = "body" /\ r.op = "create"
        /\ ~DeleteLocked(p, id) /\ ~InsertLocked(p, id)
        /\ seq' = id
        /\ IF id \in Ids(db)
           THEN req' = [req EXCEPT ![p] = Raise(r, "IntegrityError", 0)]
           ELSE req' = [req EXCEPT ![p] =
                          [r EXCEPT !.pc = "commit", !.ret = <<emp>>,
                                    !.pend = [ins |-> {Stored(emp)}, del |-> {}]]]
        /\ UNCHANGED <<db, everUsed, nreq>>

\* --------------------------------------------------------- update_employee
\* lines 151-153: setattr for every keyword the object has an attribute for
SetAttrs(emp, updates) ==
    [c \in Columns |-> IF c \in DOMAIN updates THEN updates[c] ELSE emp[c]]

BodyUpdate(p) ==
    LET r == req[p]
        found == {e \in db : e.id = r.args.emp_id}
    IN  /\ r.pc = "body" /\ r.op = "update"
        /\ IF found = {}
           THEN req' = [req EXCEPT ![p] = Raise(r, "ValueError", r.args.emp_id)]
           ELSE \E e \in found :
                    LET emp == SetAttrs(e, r.args.kw)
                    IN  req' = [req EXCEPT ![p] =
                                  [r EXCEPT !.pc = "commit", !.loaded = <<e>>,
                                            !.ret = <<emp>>]]
        /\ UNCHANGED <<db, seq, everUsed, nreq>>

\* --------------------------------------------------------- delete_employee
BodyDelete(p) ==
    LET r == req[p]
        id == r.args.emp_id
    IN  /\ r.pc = "body" /\ r.op = "delete"
        /\ ~DeleteLocked(p, id)
        /\ IF id \notin Ids(db)
           THEN req' = [req EXCEPT ![p] = Raise(r, "ValueError", id)]
           ELSE req' = [req EXCEPT ![p] =
                          [r EXCEPT !.pc = "commit", !.pend = [ins |-> {}, del |-> {id}]]]
        /\ UNCHANGED <<db, seq, everUsed, nreq>>

\* ------------------------------------------------------------ _session_scope
\* the attributes whose value setattr changed: the columns of the UPDATE statement
Changed(r) ==
    {c \in DOMAIN r.args.kw \cap Columns : r.args.kw[c] # r.loaded[1][c]}

ColumnValue(c, v) == IF c = "salary" THEN RoundScale2(v) ELSE v

\* the statement session.commit() flushes for an update waits for these row locks
FlushBlocked(p) ==
    LET r == req[p]
    IN  /\ r.op = "update" /\ Changed(r) # {}
        /\ \/ DeleteLocked(p, r.loaded[1].id)
           \/ /\ "id" \in Changed(r)
              /\ DeleteLocked(p, r.args.kw.id) \/ InsertLocked(p, r.args.kw.id)

\* UPDATE employees SET <changed> WHERE id = <loaded id>: the error it raises
FlushError(r, rows) ==
    IF r.op # "update" \/ Changed(r) = {} THEN "none"
    ELSE IF r.loaded[1].id \notin Ids(rows) THEN "StaleDataError"
    ELSE IF "id" \in Changed(r) /\ r.args.kw.id \in Ids(rows) THEN "IntegrityError"
    ELSE "none"

\* the uncommitted writes of the session once flushed
Writes(r, rows) ==
    IF r.op = "update" /\ Changed(r) # {}
    THEN [del |-> {r.loaded[1].id},
          ins |-> {[c \in Columns |->
                      IF c \in Changed(r) THEN ColumnValue(c, r.args.kw[c]) ELSE e[c]]
                   : e \in {x \in rows : x.id = r.loaded[1].id}}]
    ELSE r.pend

\* a commit that loses the deletions
PersistInsertsOnly(rows, w) == rows \cup w.ins

Persist(rows, w) == {e \in rows : e.id \notin w.del} \cup w.ins

Append_(r, ev) == [r EXCEPT !.log = Append(r.log, ev)]

\* lines 59-60: session.close(); then the manager call returns or raises into its caller
Closed(r) ==
    [Append_(r, "close") EXCEPT
        !.pc = "done",
        !.pend = NoPend,
        !.ret = IF r.exc = "none" THEN r.ret ELSE <<>>,
        !.status = IF r.layer = "http" THEN HttpStatus(r.op, r.exc) ELSE 0]

\* line 55 succeeded: the with-block is left through the finally clause
Committed(r) == Closed(Append_(r, "commit"))

\* a scope with no except clause: the session is closed, never rolled back
CommitRaisedNoRollback(r, exc) == Closed([r EXCEPT !.exc = exc])

\* line 55 raised: control goes to the except clause
CommitRaised(r, exc) == Raise(r, exc, 0)

\* line 55: session.commit() flushes, then commits; either may raise
Commit(p) ==
    LET r == req[p]
        err == FlushError(r, db)
    IN  /\ r.pc = "commit"
        /\ ~FlushBlocked(p)
        /\ IF err # "none"
           THEN /\ req' = [req EXCEPT ![p] = CommitRaised(r, err)]
                /\ UNCHANGED <<db, everUsed>>
           ELSE \E ok \in BOOLEAN :
                    IF ok
                    THEN /\ db' = Persist(db, Writes(r, db))
                         /\ everUsed' = everUsed \cup Ids(db')
                         /\ req' = [req EXCEPT ![p] = Committed(r)]
                    ELSE /\ req' = [req EXCEPT ![p] = CommitRaised(r, "OperationalError")]
                         /\ UNCHANGED <<db, everUsed>>
        /\ UNCHANGED <<seq, nreq>>

\* lines 56-58: session.rollback(), then re-raise through the finally clause
RolledBack(r) == Closed(Append_(r, "rollback"))

Rollback(p) ==
    /\ req[p].pc = "except"
    /\ req' = [req EXCEPT ![p] = RolledBack(req[p])]
    /\ UNCHANGED <<db, seq, everUsed, nreq>>

\* callers of the data-access layer itself
Next ==
    \E p \in Procs :
        \/ get_top_employees_default(p) \/ create_employee(p) \/ update_employee(p) \/ delete_employee(p)
        \/ BodyList(p) \/ BodyCreate(p) \/ BodyUpdate(p) \/ BodyDelete(p)
        \/ Commit(p) \/ Rollback(p)

Spec == Init /\ [][Next]_vars

\* the request layer in front of the same data-access layer
NextHttp ==
    \E p \in Procs :
        \/ list_employees_default(p) \/ HttpPost(p) \/ HttpPut(p) \/ HttpDelete(p)
        \/ BodyList(p) \/ BodyCreate(p) \/ BodyUpdate(p) \/ BodyDelete(p)
        \/ Commit(p) \/ Rollback(p)

SpecHttp == Init /\ [][NextHttp]_vars

\* one list request, through either layer, against any table
InitList ==
    /\ db \in Tables
    /\ seq = MaxRows
    /\ req = [p \in Procs |-> Idle]
    /\ everUsed = Ids(db)
    /\ nreq = MaxReqs - 1

NextList ==
    \/ get_top_employees("r1") \/ list_employees("r1")
    \/ BodyList("r1") \/ Commit("r1") \/ Rollback("r1")

SpecList == InitList /\ [][NextList]_vars

\* ================================================================== claims
Reached(p) == req[p].log # <<>>

\* the step in which p's session commits
CommitsOk(p) ==
    req[p].pc = "commit" /\ req'[p].pc = "done" /\ req'[p].exc = "none"

RowsOf(rows, id) == {e \in rows : e.id = id}

\* C1: whenever create has run its INSERT for a valid payload, it has not failed
\* on a constraint, the id of the entity it returns was never the id of a stored
\* employee (current or deleted), and the entity's other fields are the payload.
C1_CreateFreshId ==
    \A p \in Procs :
        req[p].op = "create" /\ Reached(p) /\ req[p].pc # "body" =>
            /\ req[p].exc \in {"none", "OperationalError"}
            /\ req[p].pc = "commit" =>
                 /\ req[p].ret[1].id \notin everUsed
                 /\ \A k \in Fields : req[p].ret[1][k] = req[p].args.kw[k]

\* C7: no two stored employees share an id, and no update call changes the id
\* of a stored employee, whatever keys its field set holds.
C7_IdUniqueImmutable ==
    /\ [](\A a \in db, b \in db : a.id = b.id => a = b)
    /\ [][\A p \in Procs :
            req[p].op = "update" /\ CommitsOk(p) => Ids(db') = Ids(db)]_vars

\* the keys of a PUT body that carry a value
Supplied(body) == {k \in DOMAIN body \cap Fields : body[k] # <<>>}

\* C3: the commit of a successful update leaves every other employee as it was,
\* leaves every field outside the supplied set as it was, sets every supplied
\* field to the supplied value, and the entity returned is the row now stored.
C3_UpdateOnlySupplied ==
    [][\A p \in Procs :
        req[p].op = "update" /\ CommitsOk(p) =>
            LET id == req[p].args.emp_id
                kw == req[p].args.kw
            IN  /\ {e \in db' : e.id # id} = {e \in db : e.id # id}
                /\ \A old \in RowsOf(db, id), new \in RowsOf(db', id) :
                     /\ \A c \in Columns \ DOMAIN kw : new[c] = old[c]
                     /\ \A c \in Columns \cap DOMAIN kw : new[c] = kw[c]
                /\ RowsOf(db', id) = {req'[p].ret[1]}]_vars

\* C9: an update that reached storage ends either applied (200, the row stored
\* with every supplied field) or with NotFound from its lookup (404); a failed
\* connection aside, there is no third outcome.
C9_UpdateAppliesOrNotFound ==
    /\ [](\A p \in Procs :
            req[p].op = "update" /\ req[p].pc = "done" /\ Reached(p) =>
                \/ req[p].exc = "none" /\ req[p].status = 200
                \/ req[p].exc = "ValueError" /\ req[p].status = 404
                \/ req[p].exc = "OperationalError")
    /\ [][\A p \in Procs :
            req[p].op = "update" /\ CommitsOk(p) =>
                \E e \in RowsOf(db', req[p].args.emp_id) :
                    \A c \in DOMAIN req[p].args.kw :
                        e[c] = ColumnValue(c, req[p].args.kw[c])]_vars

\* the step in which p's statement (the body of its with-block) runs
RunsBody(p) == req[p].pc = "body" /\ req'[p].pc # "body"

\* the step in which p's exception leaves the session scope
LeavesByRaise(p) == req[p].pc = "except" /\ req'[p].pc = "done"

\* C4: a delete whose id is stored matches the row and, on commit, removes
\* exactly the rows with that id, leaves the others alone and answers 204, so
\* the id is no longer stored; a delete whose id is not stored raises NotFound
\* with the id, changes nothing and answers 404.
C4_DeleteRemovesExactly ==
    [][\A p \in Procs :
        req[p].op = "delete" =>
            LET id == req[p].args.emp_id
            IN  /\ RunsBody(p) =>
                     /\ id \in Ids(db) => req'[p].pc = "commit" /\ req'[p].exc = "none"
                     /\ id \notin Ids(db) =>
                          req'[p].exc = "ValueError" /\ req'[p].excId = id
                     /\ db' = db
                /\ CommitsOk(p) =>
                     /\ id \in Ids(db) /\ id \notin Ids(db')
                     /\ db' = {e \in db : e.id # id}
                     /\ req[p].layer = "http" => req'[p].status = 204
                /\ LeavesByRaise(p) =>
                     /\ db' = db
                     /\ req[p].exc = "ValueError" /\ req[p].layer = "http" =>
                          req'[p].status = 404]_vars

C4_Witness ==
    \E p \in Procs, q \in Procs :
        /\ req[p].op = "delete" /\ req[p].pc = "done" /\ req[p].status = 204
        /\ req[q].op = "delete" /\ req[q].pc = "done" /\ req[q].status = 404
        /\ req[q].args.emp_id = req[p].args.emp_id

\* C5: an update with a non-empty field set whose id is not stored raises
\* NotFound carrying that id, is answered 404, and no step of it changes the
\* stored employees.
C5_UpdateMissingNotFound ==
    [][\A p \in Procs :
        req[p].op = "update" /\ Reached(p) /\ DOMAIN req[p].args.kw # {} =>
            LET id == req[p].args.emp_id
            IN  /\ RunsBody(p) /\ id \notin Ids(db) =>
                     /\ req'[p].exc = "ValueError" /\ req'[p].excId = id
                     /\ req'[p].pend = NoPend
                     /\ db' = db
                /\ LeavesByRaise(p) /\ req[p].exc = "ValueError" =>
                     /\ req'[p].exc = "ValueError" /\ req'[p].excId = id
                     /\ req[p].layer = "http" => req'[p].status = 404
                     /\ db' = db]_vars

C5_Witness ==
    \E p \in Procs :
        /\ req[p].op = "update" /\ req[p].pc = "done" /\ req[p].status = 404
        /\ req[p].excId = req[p].args.emp_id /\ DOMAIN req[p].args.kw # {}
        /\ db # {}

IsNegative(body, k) == k \in DOMAIN body /\ body[k] # <<>> /\ body[k][1] < 0

IsMissing(body, k) == k \notin DOMAIN body \/ body[k] = <<>>

\* C6: a POST whose salary or years_of_experience is negative, or that lacks a
\* required field, is answered 422, and a PUT that supplies no field is
\* answered 400 whatever its id; neither opens a session, and the step that
\* answers them changes nothing in storage.
C6_RejectedBeforeStorage ==
    /\ [](\A p \in Procs :
            req[p].layer = "http" =>
                /\ req[p].op = "create"
                   /\ \/ IsNegative(req[p].args.body, "salary")
                      \/ IsNegative(req[p].args.body, "years_of_experience")
                      \/ \E k \in Fields \ {"job_history"} : IsMissing(req[p].args.body, k)
                   => req[p].pc = "done" /\ req[p].status = 422 /\ req[p].log = <<>>
                /\ req[p].op = "update" /\ DOMAIN req[p].args.body \cap Fields = {}
                   => req[p].pc = "done" /\ req[p].status = 400 /\ req[p].log = <<>>
                /\ req[p].log = <<>> => req[p].pend = NoPend)
    /\ [][\A p \in Procs :
            req'[p] # req[p] /\ req'[p].log = <<>> =>
                db' = db /\ seq' = seq]_vars

C6_Witness ==
    \E p \in Procs, q \in Procs :
        /\ req[p].op = "update" /\ req[p].status = 400
        /\ req[p].args.emp_id \notin Ids(db) /\ db # {}
        /\ req[q].op = "create" /\ req[q].status = 422
        /\ IsNegative(req[q].args.body, "salary")

\* C8: a session is opened once per operation; it ends committed then closed
\* with no exception, or rolled back then closed with the exception that was
\* raised handed to the caller; storage changes only in the step that commits.
C8_ScopedTransaction ==
    /\ [](\A p \in Procs :
            Reached(p) =>
                /\ req[p].pc \in {"body", "commit", "except"} => req[p].log = <<"open">>
                /\ req[p].pc = "except" => req[p].exc # "none"
                /\ req[p].pc = "done" =>
                     /\ req[p].pend = NoPend
                     /\ \/ req[p].exc = "none" /\ req[p].log = <<"open", "commit", "close">>
                        \/ /\ req[p].exc # "none"
                           /\ req[p].log = <<"open", "rollback", "close">>
                           /\ req[p].ret = <<>>
                           /\ req[p].layer = "http" => req[p].status >= 400)
    /\ [][/\ db' # db =>
               \E p \in Procs :
                   CommitsOk(p) /\ req'[p].log = <<"open", "commit", "close">>
          /\ \A p \in Procs : LeavesByRaise(p) => req'[p].exc = req[p].exc]_vars

C8_Witness ==
    \E p \in Procs, q \in Procs :
        /\ req[p].op = "create" /\ req[p].pc = "done"
        /\ req[p].exc = "OperationalError"
        /\ req[p].log = <<"open", "rollback", "close">>
        /\ req[q].op = "delete" /\ req[q].pc = "done" /\ req[q].exc = "ValueError"
        /\ db = {}

\* C10: a PUT whose fields are all null is answered 400 without a session; a
\* null-valued field of a PUT leaves that field of the stored row as it was;
\* and no step turns a stored job_history from a text into NULL.
C10_NullIsUnset ==
    /\ [](\A p \in Procs :
            /\ req[p].layer = "http" /\ req[p].op = "update"
            /\ EmployeeUpdateValid(req[p].args.body)
            /\ Supplied(req[p].args.body) = {}
            => req[p].pc = "done" /\ req[p].status = 400 /\ req[p].log = <<>>)
    /\ [][/\ \A p \in Procs :
               req[p].op = "update" /\ CommitsOk(p) =>
                   \A k \in (DOMAIN req[p].args.body \cap Fields) \ Supplied(req[p].args.body) :
                       \A old \in RowsOf(db, req[p].args.emp_id),
                          new \in RowsOf(db', req[p].args.emp_id) : new[k] = old[k]
          /\ \A old \in db, new \in db' :
               old.id = new.id /\ old.job_history # <<>> => new.job_history # <<>>]_vars

C10_Witness ==
    \E p \in Procs, q \in Procs :
        /\ req[p].op = "update" /\ req[p].pc = "done" /\ req[p].status = 200
        /\ "job_history" \in DOMAIN req[p].args.body
        /\ req[p].args.body["job_history"] = <<>>
        /\ \E e \in db : e.id = req[p].args.emp_id /\ e.job_history # <<>>
        /\ req[q].op = "update" /\ req[q].status = 400
        /\ DOMAIN req[q].args.body # {}

\* a sorts strictly before b under the keys: the first key that tells them
\* apart puts a first (smaller for a plain key, larger for a '-' key)
Precedes(a, b, keys) ==
    \E i \in 1..Len(keys) :
        LET c == IF keys[i][1] = "-" THEN keys[i][2] ELSE keys[i][1]
        IN  /\ \A j \in 1..(i - 1) :
                 LET d == IF keys[j][1] = "-" THEN keys[j][2] ELSE keys[j][1]
                 IN  SortValue(a, d) = SortValue(b, d)
            /\ IF keys[i][1] = "-" THEN SortValue(a, c) > SortValue(b, c)
               ELSE SortValue(a, c) < SortValue(b, c)

\* C2: a list with limit k, known order_by keys and an exact-match filter
\* returns min(k, number of matching employees) distinct employees that all
\* satisfy the filter, in the order of the keys, none of the employees left
\* out sorting before one returned; with no order_by, or an empty one, the
\* order is descending salary.
C2_ListTopSorted ==
    [][\A p \in Procs :
        req[p].op = "list" /\ RunsBody(p) /\ req'[p].exc = "none" =>
            LET a == req[p].args
                given == a.order_by # <<>> /\ a.order_by[1] # <<>>
                keys == IF given THEN a.order_by[1] ELSE << <<"-", "salary">> >>
                wanted == IF a.filters = <<>> THEN <<>> ELSE a.filters[1]
                matching == {e \in db : \A f \in DOMAIN wanted : e[f] = wanted[f]}
                out == req'[p].ret
            IN  /\ Len(out) <= a.n
                /\ Len(out) = Min(a.n, Cardinality(matching))
                /\ \A i \in 1..Len(out) : out[i] \in matching
                /\ \A i \in 1..Len(out), j \in 1..Len(out) :
                     /\ i # j => out[i] # out[j]
                     /\ i < j => ~Precedes(out[j], out[i], keys)
                /\ \A e \in matching :
                     (\A i \in 1..Len(out) : out[i] # e) =>
                         \A i \in 1..Len(out) : ~Precedes(e, out[i], keys)
                /\ ~given =>
                     \A i \in 1..Len(out), j \in 1..Len(out) :
                         i < j => out[i].salary >= out[j].salary]_vars

C2_Witness ==
    \E p \in Procs :
        /\ req[p].op = "list" /\ req[p].pc = "done" /\ req[p].exc = "none"
        /\ req[p].args.order_by \in {<<>>, << <<>> >>}
        /\ req[p].args.filters = << [title |-> "Eng"] >>
        /\ Len(req[p].ret) = 2 /\ req[p].args.n = 2
        /\ Cardinality({e \in db : e.title = "Eng"}) = 3
        /\ req[p].ret[1].salary > req[p].ret[2].salary

====
